---- MODULE Spec2Model ----
(***************************************************************************)
(* Volpar (volumetric particles): the fill loop of class Volpar.           *)
(*                                                                         *)
(* Coordinates are integers.  The meshes are small fixtures whose bounding *)
(* boxes have extents that are multiples of RandDen, so that the candidate *)
(* points  center + size * Math.random() - size * 0.5  are integral for    *)
(* the modelled outcomes of Math.random().                                 *)
(***************************************************************************)
EXTENDS Integers, Sequences, FiniteSets, TLC

(***************************************************************************)
(* Bounds of the model.                                                    *)
(***************************************************************************)
MaxTarget == 2
MaxSessions == 3
InitChunckSize == 2
MaxChunck == 4
MaxDen == 25
\* geometries handed to buildMeshSHM alone: non-indexed buffers of
\* MinFloats..MaxFloats floats, and indexed ones whose index entries are
\* 0..MaxVertexIndex over two vertices
MaxFloats == 10
MaxVertexIndex == 2

(***************************************************************************)
(* Program constants.                                                      *)
(***************************************************************************)
FrameMax == 16
FrameMin == 12
PlaneConstant == 30
RayFar == 1000
\* near plane of the raycaster, 0.1 = NearNum / NearDen
NearNum == 1
NearDen == 10

(***************************************************************************)
(* Outcomes of Math.random(): RandNums / RandDen, all in [0, 1).           *)
(***************************************************************************)
RandNums == <<1, 3>>
RandDen == 2 * Len(RandNums)
\* one candidate point costs three calls of Math.random(); their outcomes
\* are numbered 1..NOutcomes
NOutcomes == Len(RandNums) * Len(RandNums) * Len(RandNums)
Outcome(k) ==
  <<RandNums[(((k - 1) \div (Len(RandNums) * Len(RandNums))) % Len(RandNums)) + 1],
    RandNums[(((k - 1) \div Len(RandNums)) % Len(RandNums)) + 1],
    RandNums[((k - 1) % Len(RandNums)) + 1]>>

\* outcomes of performance.now() - tFrame0 for one frame
Durations == {0, 8, 12, 14, 16, 20}

Min2(a, b) == IF a < b THEN a ELSE b
Max2(a, b) == IF a > b THEN a ELSE b

(***************************************************************************)
(* Geometries: a flat position buffer and an optional index buffer.        *)
(***************************************************************************)
NoIndex == <<-1>>

\* closed tetrahedron, indexed
Tetra ==
  [position |-> <<0,0,0, 4,0,0, 0,4,0, 0,0,4>>,
   index |-> <<0,2,1, 0,1,3, 0,3,2, 1,2,3>>]
\* two separate triangles, non-indexed: the footprint has a hole at x = 6
Gap ==
  [position |-> <<0,0,0, 4,0,0, 0,4,0,  8,0,0, 8,4,0, 8,0,4>>,
   index |-> NoIndex]
\* no triangle at all
Empty == [position |-> <<>>, index |-> NoIndex]

\* the meshes handed to onMeshReady
Fixtures == {Tetra, Gap, Empty}

IsIndexed(geometry) == geometry.index # NoIndex

\* array[i] of a JavaScript typed array (0-based); out of range is undefined,
\* which the Vector3 constructor turns into 0
ReadCoord(array, i) ==
  IF i >= 0 /\ i < Len(array) THEN array[i + 1] ELSE 0

\* indices.array[k]; undefined is -1, and 3 * undefined indexes nothing
ReadIndex(array, k) ==
  IF k >= 0 /\ k < Len(array) THEN array[k + 1] ELSE -1

ReadVertex(positions, i0) ==
  IF i0 < 0 THEN <<0, 0, 0>>
  ELSE <<ReadCoord(positions, 3 * i0), ReadCoord(positions, 3 * i0 + 1),
         ReadCoord(positions, 3 * i0 + 2)>>

\* number of iterations of  for (i = 0; i < n / d; i++)
CeilDiv(n, d) == (n + d - 1) \div d

getTrianglesForIndexedGeometry(geometry) ==
  [i \in 1..CeilDiv(Len(geometry.index), 3) |->
     [a |-> ReadVertex(geometry.position, ReadIndex(geometry.index, 3 * (i - 1))),
      b |-> ReadVertex(geometry.position, ReadIndex(geometry.index, 3 * (i - 1) + 1)),
      c |-> ReadVertex(geometry.position, ReadIndex(geometry.index, 3 * (i - 1) + 2))]]

\* positions.count = array.length / 3, nTriangles = positions.count / 3
getTrianglesForNonIndexedGeometry(geometry) ==
  [idx \in 1..CeilDiv(Len(geometry.position), 9) |->
     [a |-> <<ReadCoord(geometry.position, 9 * (idx - 1)),
              ReadCoord(geometry.position, 9 * (idx - 1) + 1),
              ReadCoord(geometry.position, 9 * (idx - 1) + 2)>>,
      b |-> <<ReadCoord(geometry.position, 9 * (idx - 1) + 3),
              ReadCoord(geometry.position, 9 * (idx - 1) + 4),
              ReadCoord(geometry.position, 9 * (idx - 1) + 5)>>,
      c |-> <<ReadCoord(geometry.position, 9 * (idx - 1) + 6),
              ReadCoord(geometry.position, 9 * (idx - 1) + 7),
              ReadCoord(geometry.position, 9 * (idx - 1) + 8)>>]]

\* THREE.Plane((0,0,1), 30).projectPoint: point - normal * (point.z + 30)
projectPoint(pt) == <<pt[1], pt[2], pt[3] - (pt[3] + PlaneConstant)>>

ZConstant(triangle) ==
  /\ triangle.a[3] = triangle.b[3]
  /\ triangle.a[3] = triangle.c[3]
  /\ triangle.b[3] = triangle.c[3]

getTriangleAABB(triangle) ==
  [xmin |-> Min2(Min2(triangle.a[1], triangle.b[1]), triangle.c[1]),
   xmax |-> Max2(Max2(triangle.a[1], triangle.b[1]), triangle.c[1]),
   ymin |-> Min2(Min2(triangle.a[2], triangle.b[2]), triangle.c[2]),
   ymax |-> Max2(Max2(triangle.a[2], triangle.b[2]), triangle.c[2])]

\* a zero extent left as it is
WidenNever(min, max) == max

\* the widening of a zero extent, lines 406-414
WidenMax(min, max) == IF min = max THEN max + 1 ELSE max

\* the item inserted into the RBush for one triangle
shmItem(triangle) ==
  LET projectedTriangle == [a |-> projectPoint(triangle.a),
                            b |-> projectPoint(triangle.b),
                            c |-> projectPoint(triangle.c)]
      aabb == getTriangleAABB(projectedTriangle)
  IN [minX |-> aabb.xmin,
      minY |-> aabb.ymin,
      maxX |-> WidenMax(aabb.xmin, aabb.xmax),
      maxY |-> WidenMax(aabb.ymin, aabb.ymax),
      mesh |-> triangle]

extractTriangles(geometry) ==
  IF IsIndexed(geometry) THEN getTrianglesForIndexedGeometry(geometry)
  ELSE getTrianglesForNonIndexedGeometry(geometry)

\* lines 384-425: triangles.forEach stops at the first triangle for which
\* getTriangleAABB throws; the items inserted before it stay in the RBush
buildMeshSHM(geometry) ==
  LET triangles == extractTriangles(geometry)
      throwing == {i \in 1..Len(triangles) :
                     ~ZConstant([a |-> projectPoint(triangles[i].a),
                                 b |-> projectPoint(triangles[i].b),
                                 c |-> projectPoint(triangles[i].c)])}
      inserted == IF throwing = {} THEN Len(triangles)
                  ELSE (CHOOSE i \in throwing : \A j \in throwing : i <= j) - 1
  IN [shm |-> SubSeq([i \in 1..Len(triangles) |-> shmItem(triangles[i])],
                     1, inserted),
      thrown |-> IF throwing = {} THEN "none"
                 ELSE "triangle not in a z-constant plane"]

(***************************************************************************)
(* Bounding box of the geometry (computeBoundingBox, getCenter, getSize).  *)
(* Box3.setFromBufferAttribute compares each read coordinate with the      *)
(* running min and max; an undefined read compares false and is skipped.   *)
(* An empty box has center and size (0, 0, 0).                             *)
(***************************************************************************)
AxisValues(positions, axis) ==
  {positions[j] : j \in {k \in 1..Len(positions) : (k - 1) % 3 = axis - 1}}
SetMin(S) == CHOOSE v \in S : \A w \in S : v <= w
SetMax(S) == CHOOSE v \in S : \A w \in S : v >= w
IsEmptyBox(positions) ==
  \E axis \in 1..3 : AxisValues(positions, axis) = {}
AxisCenter(positions, axis) ==
  (SetMin(AxisValues(positions, axis)) + SetMax(AxisValues(positions, axis)))
    \div 2
AxisSize(positions, axis) ==
  SetMax(AxisValues(positions, axis)) - SetMin(AxisValues(positions, axis))
getCenter(geometry) ==
  IF IsEmptyBox(geometry.position) THEN <<0, 0, 0>>
  ELSE <<AxisCenter(geometry.position, 1), AxisCenter(geometry.position, 2),
         AxisCenter(geometry.position, 3)>>
getSize(geometry) ==
  IF IsEmptyBox(geometry.position) THEN <<0, 0, 0>>
  ELSE <<AxisSize(geometry.position, 1), AxisSize(geometry.position, 2),
         AxisSize(geometry.position, 3)>>

\* center + size * Math.random() - size * 0.5, for the outcome r / RandDen
randomCoord(center, size, r) == center + (size * r) \div RandDen - size \div 2
candidatePoint(center, size, r) ==
  <<randomCoord(center[1], size[1], r[1]),
    randomCoord(center[2], size[2], r[2]),
    randomCoord(center[3], size[3], r[3])>>

(***************************************************************************)
(* RBush.search: the items whose box intersects the searched box (closed   *)
(* intervals), here as the set of their positions in the index.            *)
(***************************************************************************)
\* the intersection test on open intervals
intersectsStrict(a, b) ==
  /\ b.minX < a.maxX
  /\ b.minY < a.maxY
  /\ b.maxX > a.minX
  /\ b.maxY > a.minY

intersects(a, b) ==
  /\ b.minX <= a.maxX
  /\ b.minY <= a.maxY
  /\ b.maxX >= a.minX
  /\ b.maxY >= a.minY

search(shm, bbox) == {i \in DOMAIN shm : intersects(bbox, shm[i])}

searchBox(projPt) ==
  [minX |-> projPt[1], minY |-> projPt[2],
   maxX |-> projPt[1] + 1, maxY |-> projPt[2] + 1]

(***************************************************************************)
(* THREE.Raycaster(origin, (0,0,-1), 0.1, 1000) against one double-sided   *)
(* triangle mesh: Ray.intersectTriangle without backface culling, then the *)
(* near / far test on the distance.                                        *)
(***************************************************************************)
Sub(u, v) == <<u[1] - v[1], u[2] - v[2], u[3] - v[3]>>
Cross(u, v) ==
  <<u[2] * v[3] - u[3] * v[2], u[3] * v[1] - u[1] * v[3],
    u[1] * v[2] - u[2] * v[1]>>
Dot(u, v) == u[1] * v[1] + u[2] * v[2] + u[3] * v[3]
RayDirection == <<0, 0, -1>>

intersectTriangle(origin, triangle) ==
  LET edge1 == Sub(triangle.b, triangle.a)
      edge2 == Sub(triangle.c, triangle.a)
      normal == Cross(edge1, edge2)
      d == Dot(RayDirection, normal)
      sign == IF d > 0 THEN 1 ELSE -1
      DdN == IF d > 0 THEN d ELSE -d
      diff == Sub(origin, triangle.a)
      DdQxE2 == sign * Dot(RayDirection, Cross(diff, edge2))
      DdE1xQ == sign * Dot(RayDirection, Cross(edge1, diff))
      QdN == (-sign) * Dot(diff, normal)
  IN /\ d # 0
     /\ DdQxE2 >= 0
     /\ DdE1xQ >= 0
     /\ DdQxE2 + DdE1xQ <= DdN
     /\ QdN >= 0
     \* distance = QdN / DdN, kept when near <= distance <= far
     /\ NearDen * QdN >= NearNum * DdN
     /\ QdN <= RayFar * DdN

\* raycaster.intersectObjects(meshs, false).length
intersectObjects(shm, objects, origin) ==
  Cardinality({i \in objects : intersectTriangle(origin, shm[i].mesh)})

\* the parity rule as the README words it: an even number of crossings
\* is inside
testCandidateEven(shm, center, size, r) ==
  LET pt == candidatePoint(center, size, r)
      objects == search(shm, searchBox(projectPoint(pt)))
  IN IF objects = {}
     THEN [pt |-> pt, rays |-> 0, kept |-> FALSE]
     ELSE IF intersectObjects(shm, objects, pt) % 2 = 0
     THEN [pt |-> pt, rays |-> 1, kept |-> TRUE]
     ELSE [pt |-> pt, rays |-> 1, kept |-> FALSE]

\* lines 178-235: one candidate of the loop of fillMeshWithParticlesFrame,
\* generated from three outcomes r of Math.random(); rays counts the
\* raycasters built for it
testCandidate(shm, center, size, r) ==
  LET pt == candidatePoint(center, size, r)
      objects == search(shm, searchBox(projectPoint(pt)))
  IN IF objects = {}
     THEN [pt |-> pt, rays |-> 0, kept |-> FALSE]
     ELSE IF intersectObjects(shm, objects, pt) % 2 = 0
     THEN [pt |-> pt, rays |-> 1, kept |-> FALSE]
     ELSE [pt |-> pt, rays |-> 1, kept |-> TRUE]

(***************************************************************************)
(* fillChunckSize is a positive real or Infinity: num / den, den = 0 for   *)
(* Infinity (16 / 0 in JavaScript).                                        *)
(***************************************************************************)
RECURSIVE GCD(_, _)
GCD(a, b) == IF b = 0 THEN a ELSE GCD(b, a % b)
Ratio(num, den) ==
  IF den = 0 THEN [num |-> 1, den |-> 0]
  ELSE [num |-> num \div GCD(num, den), den |-> den \div GCD(num, den)]
IsInfinite(chunck) == chunck.den = 0
\* count < this.fillChunckSize
CountBelow(count, chunck) ==
  IF IsInfinite(chunck) THEN TRUE ELSE count * chunck.den < chunck.num
Ceil(chunck) == CeilDiv(chunck.num, chunck.den)

fillChunckAutoSize == TRUE

\* the adaptation with the ratio upside down
adaptChunckSizeInverse(chunck, currentFrame) ==
  IF fillChunckAutoSize /\ (currentFrame > FrameMax \/ currentFrame < FrameMin)
  THEN Ratio(chunck.num * currentFrame, chunck.den * FrameMax)
  ELSE chunck

\* lines 254-261: the frame size adaptation
adaptChunckSize(chunck, currentFrame) ==
  IF fillChunckAutoSize /\ (currentFrame > FrameMax \/ currentFrame < FrameMin)
  THEN Ratio(chunck.num * FrameMax, chunck.den * currentFrame)
  ELSE chunck

\* the chunk sizes the model follows
ChunckInBounds(chunck) ==
  IF IsInfinite(chunck) THEN TRUE
  ELSE chunck.den <= MaxDen /\ Ceil(chunck) <= MaxChunck

VARIABLES
  nParticles,        \* target number of particles
  particlesCount,    \* accepted particles
  particles,         \* flat list of the accepted coordinates
  fillChunckSize,    \* candidates per frame
  mesh,              \* this.mesh: <<>> for null, else <<geometry>>
  shm,               \* mesh.geometry.userData.shm, the items of the RBush
  shmMeshBBCenter,   \* mesh.userData.shmMeshBBCenter
  shmMeshBBSize,     \* mesh.userData.shmMeshBBSize
  raf,               \* requestAnimationFrame queue: the session of each pending frame
  completions,       \* per fill session, the calls of onFillParticlesComplete
  thrown,            \* the exception that left the last handler
  frame,             \* the running fillMeshWithParticlesFrame: its session and count
  lastTest,          \* history: the candidate the running frame tested last
  currentFrame       \* history: the duration the last finished frame measured

vars == <<nParticles, particlesCount, particles, fillChunckSize, mesh, shm,
          shmMeshBBCenter, shmMeshBBSize, raf, completions, thrown, frame,
          lastTest, currentFrame>>

NoFrame == [session |-> 0, count |-> 0]
NoTest == [pt |-> <<0, 0, 0>>, rays |-> 0, kept |-> FALSE]
NotMeasured == -1

\* a frame is a callback that runs to completion: while it runs, the host
\* runs nothing else
InFrame == frame.session # 0

\* the constructor, lines 58-93
Init ==
  /\ nParticles \in 0..MaxTarget
  /\ particlesCount = 0
  /\ particles = <<>>
  /\ fillChunckSize = Ratio(InitChunckSize, 1)
  /\ mesh = <<>>
  /\ shm = <<>>
  /\ shmMeshBBCenter = <<0, 0, 0>>
  /\ shmMeshBBSize = <<0, 0, 0>>
  /\ raf = <<>>
  /\ completions = <<>>
  /\ thrown = "none"
  /\ frame = NoFrame
  /\ lastTest = NoTest
  /\ currentFrame = NotMeasured

\* onMeshReady, lines 597-609: buildMeshSHM, then fillMeshWithParticles,
\* lines 279-300, which enters the first frame of a new chain of frames
onMeshReady(geometry) ==
  LET built == buildMeshSHM(geometry)
  IN /\ ~InFrame
     /\ Len(completions) < MaxSessions
     /\ mesh' = <<geometry>>
     /\ shm' = built.shm
     /\ thrown' = built.thrown
     /\ IF built.thrown # "none"
        THEN UNCHANGED <<shmMeshBBCenter, shmMeshBBSize, completions, frame,
                         lastTest, currentFrame>>
        ELSE /\ shmMeshBBCenter' = getCenter(geometry)
             /\ shmMeshBBSize' = getSize(geometry)
             /\ completions' = Append(completions, 0)
             /\ frame' = [session |-> Len(completions) + 1, count |-> 0]
             /\ lastTest' = NoTest
             /\ currentFrame' = NotMeasured
     /\ UNCHANGED <<nParticles, particlesCount, particles, fillChunckSize, raf>>

\* the host runs the oldest pending frame: lines 153-169
runFrame ==
  /\ ~InFrame
  /\ raf # <<>>
  /\ frame' = [session |-> Head(raf), count |-> 0]
  /\ raf' = Tail(raf)
  /\ thrown' = "none"
  /\ lastTest' = NoTest
  /\ currentFrame' = NotMeasured
  /\ UNCHANGED <<nParticles, particlesCount, particles, fillChunckSize, mesh,
                 shm, shmMeshBBCenter, shmMeshBBSize, completions>>

\* the loop with count <= this.fillChunckSize
loopRunsInclusive(count) ==
  /\ particlesCount # nParticles
  /\ IF IsInfinite(fillChunckSize) THEN TRUE
     ELSE count * fillChunckSize.den <= fillChunckSize.num

\* line 171: the condition of the while loop
loopRuns(count) ==
  particlesCount # nParticles /\ CountBelow(count, fillChunckSize)

\* count++ ; with an infinite chunk size the loop no longer reads count, and
\* the model stops counting at MaxChunck
increment(count) ==
  IF IsInfinite(fillChunckSize) THEN Min2(count + 1, MaxChunck) ELSE count + 1

\* the candidate put in front of the list
keepParticleFirst(pt) ==
  /\ particlesCount' = particlesCount + 1
  /\ particles' = pt \o particles

\* lines 240-244: the candidate is kept
keepParticle(pt) ==
  /\ particlesCount' = particlesCount + 1
  /\ particles' = particles \o pt

\* lines 171-245: one iteration of the loop, for outcome k of Math.random()
testStep(k) ==
  LET t == testCandidate(shm, shmMeshBBCenter, shmMeshBBSize, Outcome(k))
  IN /\ InFrame
     /\ loopRuns(frame.count)
     /\ frame' = [frame EXCEPT !.count = increment(@)]
     /\ lastTest' = t
     /\ IF t.kept THEN keepParticle(t.pt)
        ELSE UNCHANGED <<particlesCount, particles>>
     /\ UNCHANGED <<nParticles, fillChunckSize, mesh, shm, shmMeshBBCenter,
                    shmMeshBBSize, raf, completions, thrown, currentFrame>>

\* the next frame requested whatever the count
completeAndSchedule(s) ==
  /\ completions' = IF particlesCount = nParticles
                    THEN [completions EXCEPT ![s] = @ + 1] ELSE completions
  /\ raf' = Append(raf, s)

\* no next frame requested
completeOrStop(s) ==
  /\ completions' = IF particlesCount = nParticles
                    THEN [completions EXCEPT ![s] = @ + 1] ELSE completions
  /\ raf' = raf

\* the chain of frames dropped when the frame kept nothing
completeOrDrop(s) ==
  /\ completions' = IF particlesCount = nParticles
                    THEN [completions EXCEPT ![s] = @ + 1] ELSE completions
  /\ raf' = IF particlesCount = 0 THEN raf ELSE Append(raf, s)

\* lines 263-272: onFillParticlesComplete, or the next frame is requested
completeOrSchedule(s) ==
  IF particlesCount = nParticles
  THEN /\ completions' = [completions EXCEPT ![s] = @ + 1]
       /\ raf' = raf
  ELSE /\ completions' = completions
       /\ raf' = Append(raf, s)

\* lines 247-272: the end of the frame, which measured the duration d
endOfFrame(d) ==
  /\ InFrame
  /\ ~loopRuns(frame.count)
  /\ ChunckInBounds(adaptChunckSize(fillChunckSize, d))
  /\ fillChunckSize' = adaptChunckSize(fillChunckSize, d)
  /\ completeOrSchedule(frame.session)
  /\ frame' = NoFrame
  /\ lastTest' = NoTest
  /\ currentFrame' = d
  /\ UNCHANGED <<nParticles, particlesCount, particles, mesh, shm,
                 shmMeshBBCenter, shmMeshBBSize, thrown>>

Next ==
  \/ \E geometry \in Fixtures : onMeshReady(geometry)
  \/ runFrame
  \/ \E k \in 1..NOutcomes : testStep(k)
  \/ \E d \in Durations : endOfFrame(d)

Spec == Init /\ [][Next]_vars

(***************************************************************************)
(* buildMeshSHM alone, on every geometry of a bounded family: position     *)
(* buffers over BuildCoords, with and without an index, well formed or     *)
(* not.                                                                    *)
(***************************************************************************)
BuildCoords == {0, 4}
BuildGeometries ==
  {[position |-> p, index |-> NoIndex] :
     p \in UNION {[1..n -> BuildCoords] : n \in 9..MaxFloats}}
  \cup
  {[position |-> p, index |-> i] :
     p \in UNION {[1..n -> BuildCoords] : n \in 5..6},
     i \in [1..3 -> 0..MaxVertexIndex]}

\* lines 349-429 for the mesh just stored in this.mesh, line 602
buildMesh(geometry) ==
  /\ mesh = <<>>
  /\ mesh' = <<geometry>>
  /\ shm' = buildMeshSHM(geometry).shm
  /\ thrown' = buildMeshSHM(geometry).thrown
  /\ UNCHANGED <<nParticles, particlesCount, particles, fillChunckSize,
                 shmMeshBBCenter, shmMeshBBSize, raf, completions, frame,
                 lastTest, currentFrame>>

NextBuild == \E geometry \in BuildGeometries : buildMesh(geometry)

SpecBuild == Init /\ [][NextBuild]_vars

(***************************************************************************)
(* The test of a candidate, lines 183-235, on the points of a grid around  *)
(* and inside the mesh, for the fixtures and for every single triangle     *)
(* over BuildCoords.                                                       *)
(***************************************************************************)
RayGeometries ==
  Fixtures \cup
  {[position |-> p, index |-> NoIndex] : p \in [1..9 -> BuildCoords]}
RayPoints == {<<x, y, z>> : x \in -1..5, y \in -1..5, z \in {0, 2, 5}}

\* lines 183-235 for the candidate pt
testPoint(index, pt) ==
  LET objects == search(index, searchBox(projectPoint(pt)))
  IN IF objects = {}
     THEN [pt |-> pt, rays |-> 0, kept |-> FALSE]
     ELSE [pt |-> pt, rays |-> 1,
           kept |-> intersectObjects(index, objects, pt) % 2 = 1]

\* the first iteration of the loop of the first frame, lines 171-245, for a
\* candidate anywhere on the grid
rayStep(pt) ==
  /\ InFrame
  /\ frame.count = 0
  /\ loopRuns(frame.count)
  /\ frame' = [frame EXCEPT !.count = increment(@)]
  /\ lastTest' = testPoint(shm, pt)
  /\ IF testPoint(shm, pt).kept THEN keepParticle(pt)
     ELSE UNCHANGED <<particlesCount, particles>>
  /\ UNCHANGED <<nParticles, fillChunckSize, mesh, shm, shmMeshBBCenter,
                 shmMeshBBSize, raf, completions, thrown, currentFrame>>

NextRay ==
  \/ \E geometry \in RayGeometries : onMeshReady(geometry)
  \/ \E pt \in RayPoints : rayStep(pt)

SpecRay == Init /\ [][NextRay]_vars

(***************************************************************************)
(* The fill on meshes that enclose some of the candidates, with a host     *)
(* that runs every requested frame, frames that run to their end, and a    *)
(* random source that keeps giving candidates that are inside.             *)
(***************************************************************************)
SolidFixtures == {Tetra, Gap}

\* an iteration of the loop that keeps its candidate
acceptStep ==
  \E k \in 1..NOutcomes :
    testStep(k) /\ particlesCount' = particlesCount + 1

NextLive ==
  \/ \E geometry \in SolidFixtures : onMeshReady(geometry)
  \/ runFrame
  \/ \E k \in 1..NOutcomes : testStep(k)
  \/ \E d \in Durations : endOfFrame(d)

\* the host runs the pending frame, and the running frame goes on: at most
\* one of the three is enabled in a state
hostStep ==
  \/ runFrame
  \/ \E k \in 1..NOutcomes : testStep(k)
  \/ \E d \in Durations : endOfFrame(d)

\* ENABLED <<hostStep>>_vars: a frame is pending or running
hostEnabled == InFrame \/ raf # <<>>

\* ENABLED <<acceptStep>>_vars: the loop runs and some outcome of
\* Math.random() gives a candidate that is kept
acceptEnabled ==
  /\ InFrame
  /\ loopRuns(frame.count)
  /\ \E k \in 1..NOutcomes :
       testCandidate(shm, shmMeshBBCenter, shmMeshBBSize, Outcome(k)).kept

\* WF_vars(hostStep) /\ SF_vars(acceptStep), with ENABLED written out
Fairness ==
  /\ ([]<>(~hostEnabled) \/ []<><<hostStep>>_vars)
  /\ (<>[](~acceptEnabled) \/ []<><<acceptStep>>_vars)

SpecLive == Init /\ [][NextLive]_vars /\ Fairness

(***************************************************************************)
(* States of a fill session, as the specification names them.              *)
(***************************************************************************)
\* a step has run, the target is not reached, a next step is pending
Filling == ~InFrame /\ raf # <<>> /\ particlesCount # nParticles
\* every session has notified its completion and no step is pending
Complete ==
  /\ ~InFrame
  /\ raf = <<>>
  /\ completions # <<>>
  /\ \A s \in DOMAIN completions : completions[s] = 1
\* between two handlers, a step that leaves the queue of frames alone is a
\* mesh-ready event
MeshReadyEvent == ~InFrame /\ raf' = raf
StartsSession == Len(completions') = Len(completions) + 1
\* a step of the loop of a frame: one candidate is generated and tested
CandidateStep == InFrame /\ InFrame'
\* the end of a frame
FrameEnd == InFrame /\ ~InFrame'
\* the frames of session s that are pending or running
Pending(s) ==
  Cardinality({i \in DOMAIN raf : raf[i] = s})
    + (IF frame.session = s THEN 1 ELSE 0)
\* geometries the specification calls malformed
Malformed(geometry) ==
  IF IsIndexed(geometry)
  THEN \/ Len(geometry.position) % 3 # 0
       \/ \E k \in DOMAIN geometry.index :
            \/ geometry.index[k] < 0
            \/ 3 * geometry.index[k] + 2 >= Len(geometry.position)
  ELSE Len(geometry.position) % 9 # 0

C2_State ==
  \A s \in DOMAIN completions :
    /\ completions[s] \in {0, 1}
    /\ completions[s] = 1 =>
         /\ Pending(s) = 0
         /\ particlesCount = nParticles
         /\ Len(particles) = 3 * nParticles
    /\ completions[s] = 0 => Pending(s) = 1

C2_Step ==
  /\ \A s \in DOMAIN completions :
       completions'[s] # completions[s] =>
         /\ FrameEnd
         /\ frame.session = s
         /\ particlesCount' = nParticles
  /\ (FrameEnd /\ particlesCount' = nParticles) =>
       /\ completions'[frame.session] = completions[frame.session] + 1
       /\ raf' = raf

C2_CompletionOncePerSession == []C2_State /\ [][C2_Step]_vars

C2_Witness ==
  /\ Len(completions) >= 2
  /\ completions[1] = 1
  /\ completions[2] = 1
  /\ nParticles = MaxTarget
  /\ particlesCount = MaxTarget

(***************************************************************************)
(* C3, as amended: in every fill step the number of candidates generated   *)
(* is at most the batch size rounded up to an integer; no candidate is     *)
(* generated once the accepted count equals the target; the accepted count *)
(* never exceeds the target.                                               *)
(***************************************************************************)
C3_State ==
  /\ particlesCount <= nParticles
  /\ (InFrame /\ ~IsInfinite(fillChunckSize)) =>
       frame.count * fillChunckSize.den < fillChunckSize.num + fillChunckSize.den

C3_Step == particlesCount = nParticles => ~CandidateStep

C4_Rescaled(old, new, d) ==
  IF d = 0 \/ IsInfinite(old) THEN IsInfinite(new)
  ELSE /\ ~IsInfinite(new)
       /\ new.num * old.den * d = old.num * 16 * new.den

C4_BatchRescale ==
  [][FrameEnd =>
      LET d == currentFrame'
          old == fillChunckSize
          new == fillChunckSize'
      IN /\ (d > 16 \/ d < 12) => C4_Rescaled(old, new, d)
         /\ (12 <= d /\ d <= 16) => new = old
         /\ (d = 20 /\ ~IsInfinite(old)) =>
              /\ ~IsInfinite(new)
              /\ new.num * old.den < old.num * new.den
         /\ (d = 8 /\ ~IsInfinite(old)) =>
              /\ ~IsInfinite(new)
              /\ new.num * old.den > old.num * new.den]_vars

\* two frames of duration 20, then one of duration 8
C4_Witness ==
  /\ currentFrame = 8
  /\ fillChunckSize = [num |-> 64, den |-> 25]

(***************************************************************************)
(* C5, as stated: a mesh-ready event while a session is Filling fails with *)
(* SessionAlreadyActiveError and starts no second chain of fill steps.     *)
(***************************************************************************)
C5_SecondSessionRefused ==
  [][(Filling /\ MeshReadyEvent) =>
       /\ thrown' = "SessionAlreadyActiveError"
       /\ ~StartsSession
       /\ ~InFrame']_vars

(***************************************************************************)
(* C6, as stated: a mesh-ready event after Complete starts a session and   *)
(* resets the accepted count and the store.                                *)
(***************************************************************************)
C6_RestartResets ==
  [][(Complete /\ MeshReadyEvent) =>
       /\ thrown' = "none"
       /\ StartsSession
       /\ particlesCount' = 0
       /\ particles' = <<>>]_vars

(***************************************************************************)
(* C7: while the mesh has no triangle, the target is positive and nothing  *)
(* has been accepted, the index is empty, every candidate is rejected      *)
(* without a ray, the accepted count stays 0, no completion is notified,   *)
(* nothing is thrown, and every frame that ends requests the next one.     *)
(***************************************************************************)
C7_NoTriangle ==
  /\ mesh # <<>>
  /\ Len(extractTriangles(mesh[1])) = 0
  /\ nParticles > 0
  /\ particlesCount = 0

C8_MalformedRejected ==
  (mesh # <<>> /\ Malformed(mesh[1])) =>
    /\ thrown = "MalformedGeometryError"
    /\ shm = <<>>

(***************************************************************************)
(* C9: after buildMeshSHM the index holds one entry per extracted          *)
(* triangle, in order; each entry has minX < maxX and minY < maxY; its     *)
(* bounds are the min and max of the projected vertices, except that a     *)
(* zero extent is widened to max = min + 1, and only a zero extent.        *)
(***************************************************************************)
C9_Bound(lo, hi, values) ==
  /\ lo \in values
  /\ \A v \in values : lo <= v
  /\ lo < hi
  /\ IF \A v \in values : v = lo
     THEN hi = lo + 1
     ELSE hi \in values /\ \A v \in values : v <= hi

C9_OneWidenedEntryPerTriangle ==
  mesh # <<>> =>
    /\ Len(shm) = Len(extractTriangles(mesh[1]))
    /\ \A i \in DOMAIN shm :
         LET t == extractTriangles(mesh[1])[i]
             pa == projectPoint(t.a)
             pb == projectPoint(t.b)
             pc == projectPoint(t.c)
         IN /\ shm[i].mesh = t
            /\ C9_Bound(shm[i].minX, shm[i].maxX, {pa[1], pb[1], pc[1]})
            /\ C9_Bound(shm[i].minY, shm[i].maxY, {pa[2], pb[2], pc[2]})

\* an entry widened on x and not on y
C9_Witness ==
  /\ mesh # <<>>
  /\ \E i \in DOMAIN shm :
       /\ shm[i].mesh.a[1] = shm[i].mesh.b[1]
       /\ shm[i].mesh.a[1] = shm[i].mesh.c[1]
       /\ shm[i].maxX = shm[i].minX + 1
       /\ shm[i].minY = 0
       /\ shm[i].maxY = 4

(***************************************************************************)
(* C10: the store holds 3 * particlesCount coordinates, those of the       *)
(* accepted candidates in the order of their acceptance; a step leaves the *)
(* store alone or appends the candidate it accepted.                       *)
(***************************************************************************)
C10_Step ==
  \/ particles' = particles /\ particlesCount' = particlesCount
  \/ /\ CandidateStep
     /\ lastTest'.kept
     /\ particlesCount' = particlesCount + 1
     /\ particles' = particles \o lastTest'.pt

C10_StoreAppendOnly ==
  [](Len(particles) = 3 * particlesCount) /\ [][C10_Step]_vars

\* two different points, the second accepted after the first
C10_Witness ==
  /\ particlesCount = 2
  /\ particles = <<2, 1, 3, 2, 1, 1>>

(***************************************************************************)
(* C11: for every mesh and every candidate, each triangle the ray from the *)
(* candidate along -z hits is among the entries the search of the box      *)
(* [x, x+1] x [y, y+1] at its projection returns; the count over the       *)
(* matched entries equals the count over all the triangles, and the        *)
(* candidate is classified as the parity of that count says.               *)
(***************************************************************************)
C11_HitBy(pt) == {i \in DOMAIN shm : intersectTriangle(pt, shm[i].mesh)}

C11_SearchKeepsEveryHit ==
  (InFrame /\ frame.count > 0) =>
    LET pt == lastTest.pt
        matched == search(shm, searchBox(projectPoint(pt)))
    IN /\ C11_HitBy(pt) \subseteq matched
       /\ intersectObjects(shm, matched, pt) = Cardinality(C11_HitBy(pt))
       /\ lastTest.kept <=> Cardinality(C11_HitBy(pt)) % 2 = 1

\* a ray that hits a triangle while the search left another triangle out
C11_Witness ==
  /\ InFrame
  /\ frame.count > 0
  /\ C11_HitBy(lastTest.pt) # {}
  /\ search(shm, searchBox(projectPoint(lastTest.pt))) # DOMAIN shm
  /\ lastTest.kept

(***************************************************************************)
(* C12, as stated: whatever the durations measured, a duration of 0        *)
(* included, the batch size stays a positive finite number, and a frame    *)
(* that ends with the accepted count below the target has tested at least  *)
(* one candidate and at most the batch size rounded up.                    *)
(***************************************************************************)
C12_BatchPositiveFinite ==
  /\ fillChunckSize.num > 0
  /\ fillChunckSize.den > 0
  /\ (InFrame /\ particlesCount # nParticles /\ ~loopRuns(frame.count)) =>
       /\ frame.count >= 1
       /\ frame.count * fillChunckSize.den
            < fillChunckSize.num + fillChunckSize.den

(***************************************************************************)
(* C13: on meshes that enclose some candidates, with a natural target, a   *)
(* host that runs every requested frame and a random source that keeps     *)
(* giving inside points, every fill session eventually notifies its        *)
(* completion; the accepted count never decreases, and a frame that ends   *)
(* with the count equal to the target requests no further frame.           *)
(***************************************************************************)
C13_Step ==
  /\ particlesCount' >= particlesCount
  /\ (FrameEnd /\ particlesCount' = nParticles) => raf' = raf

\* the notifications are never withdrawn, so every session completes
\* exactly if, whenever there is a session, all of them are eventually
\* complete together
C13_EventuallyComplete ==
  /\ (completions # <<>>) ~> Complete
  /\ [][C13_Step]_vars

\* a session on the two separate triangles has reached its target
C13_Witness ==
  /\ mesh = <<Gap>>
  /\ nParticles = MaxTarget
  /\ particlesCount = MaxTarget
  /\ completions = <<1>>
  /\ raf = <<>>
  /\ ~InFrame

====
